---- MODULE Spec2Model ----
(***************************************************************************)
(* Model of the Jax backend of PhiFlow (src/phi/jax/_jax_backend.py):      *)
(* the batched linear solver conjugate_gradient, scatter, gather and       *)
(* batched_gather_nd, functional_gradient, custom_gradient, cast,          *)
(* is_tensor, as_tensor, the tensor constructors, the random samplers and  *)
(* while_loop.  Tensors are sequences (1-based, so the source's     *)
(* batch index b is b+1 here); floating point numbers are exact rationals  *)
(* <<numerator, denominator>> in lowest terms with a positive denominator. *)
(***************************************************************************)
EXTENDS Integers, Sequences, FiniteSets, TLC

\* Largest batch size of any input tensor.
MaxBatch == 3
\* Largest max_iterations a solve is configured with.
MaxIter == 2

VARIABLES pc, A, y, x0, solve_params, cg_calls, indices, values, shape,
          duplicates_handling, outside_handling, gathered, ret,
          call, backend, local, history

vars == <<pc, A, y, x0, solve_params, cg_calls, indices, values, shape,
          duplicates_handling, outside_handling, gathered, ret,
          call, backend, local, history>>

\* The arguments and locals of the solver, scatter and gather calls.
tensor_vars == <<A, y, x0, solve_params, cg_calls, indices, values, shape,
                 duplicates_handling, outside_handling, gathered>>

\* Python's None, and the value of a variable a specification does not use.
None == <<>>

Min(a, b) == IF a < b THEN a ELSE b
Max(a, b) == IF a > b THEN a ELSE b

Return(v) == [kind |-> "return", value |-> v]
Raise(e) == [kind |-> "raise", error |-> e]

(***************************************************************************)
(* Exact arithmetic standing for the engine's floating point numbers.      *)
(***************************************************************************)
Abs(a) == IF a < 0 THEN -a ELSE a

RECURSIVE Gcd(_, _)
Gcd(a, b) == IF b = 0 THEN a ELSE Gcd(b, a % b)

Rat(n, d) ==
    LET g == Gcd(Abs(n), Abs(d))
        s == IF d < 0 THEN -1 ELSE 1
    IN  <<(s * n) \div g, (s * d) \div g>>

Zero == <<0, 1>>
One == <<1, 1>>
RAdd(a, b) == Rat(a[1] * b[2] + b[1] * a[2], a[2] * b[2])
RSub(a, b) == Rat(a[1] * b[2] - b[1] * a[2], a[2] * b[2])
RMul(a, b) == Rat(a[1] * b[1], a[2] * b[2])
RDiv(a, b) == Rat(a[1] * b[2], a[2] * b[1])
RGt(a, b) == a[1] * b[2] > b[1] * a[2]
RMax(a, b) == IF RGt(a, b) THEN a ELSE b

\* An integer host array read as a float tensor.
ToFloat(v) == [i \in DOMAIN v |-> <<v[i], 1>>]

VAdd(u, v) == [i \in DOMAIN u |-> RAdd(u[i], v[i])]
VSub(u, v) == [i \in DOMAIN u |-> RSub(u[i], v[i])]
VScale(a, v) == [i \in DOMAIN v |-> RMul(a, v[i])]

RECURSIVE DotUpTo(_, _, _)
DotUpTo(u, v, n) ==
    IF n = 0 THEN Zero ELSE RAdd(DotUpTo(u, v, n - 1), RMul(u[n], v[n]))

Dot(u, v) == DotUpTo(u, v, Len(u))

\* The matrix-vector product a rank-2 operator stands for.
MatVec(M, p) == [i \in DOMAIN M |-> Dot(ToFloat(M[i]), p)]

(***************************************************************************)
(* combined_dim of phi.math.backend._backend_helper: the combined batch    *)
(* size of two batch sizes, or an assertion failure.                       *)
(***************************************************************************)
Incompatible == [kind |-> "raise", error |-> "AssertionError"]

combined_dim(dim1, dim2) ==
    IF dim1 = 1 THEN Return(dim2)
    ELSE IF dim2 = 1 THEN Return(dim1)
    ELSE IF dim1 = dim2 THEN Return(dim1)
    ELSE Incompatible

(***************************************************************************)
(* jax.scipy.sparse.linalg.cg as conjugate_gradient calls it: no           *)
(* preconditioner, info is always None.                                    *)
(***************************************************************************)
IsBatched(a) == a.kind \in {"list", "tensor3"}

cg_body(M, value) ==
    LET Ap == MatVec(M, value.p)
        alpha == RDiv(value.gamma, Dot(value.p, Ap))
        x_ == VAdd(value.x, VScale(alpha, value.p))
        r_ == VSub(value.r, VScale(alpha, Ap))
        gamma_ == Dot(r_, r_)
        beta_ == RDiv(gamma_, value.gamma)
        p_ == VAdd(r_, VScale(beta_, value.p))
    IN  [x |-> x_, r |-> r_, gamma |-> gamma_, p |-> p_, k |-> value.k + 1]

RECURSIVE cg_while(_, _, _, _)
cg_while(M, atol2, maxiter, value) ==
    IF RGt(value.gamma, atol2) /\ value.k < maxiter
    THEN cg_while(M, atol2, maxiter, cg_body(M, value))
    ELSE value

cg_atol2(b, tol, atol) == RMax(RMul(RMul(tol, tol), Dot(b, b)), RMul(atol, atol))

\* The loop state cg stops in, for a rank-2 operator M.
cg_final(M, b, x_init, tol, atol, maxiter) ==
    LET r0 == VSub(b, MatVec(M, x_init))
        initial_value == [x |-> x_init, r |-> r0, gamma |-> Dot(r0, r0), p |-> r0, k |-> 0]
    IN  cg_while(M, cg_atol2(b, tol, atol), maxiter, initial_value)

\* cg(A, b, x0, tol, atol, maxiter): (x, info), or the error of an operator
\* that is neither a function nor a square rank-2 array.
cg(a, b, x_init, tol, atol, maxiter) ==
    IF a.kind = "list" THEN Raise("TypeError")
    ELSE IF a.kind = "tensor3" THEN Raise("ValueError")
    ELSE Return(<<cg_final(a.m, b, x_init, tol, atol, maxiter).x, None>>)

(***************************************************************************)
(* JaxBackend.conjugate_gradient                                           *)
(***************************************************************************)
SolveResult(success, iterations) == [success |-> success, iterations |-> iterations]

\* batch_size of lines 447-452.
cg_batch_size(a, b, x_init) ==
    LET bs_y == Len(b)
        bs_x0 == Len(x_init)
        first == combined_dim(bs_y, bs_x0)
    IN  IF first.kind = "raise" THEN first
        ELSE IF IsBatched(a) THEN combined_dim(first.value, Len(a.m))
        ELSE first

\* The right-hand side and initial guess of batch element `batch` (lines 457-458).
cg_y_first(b, batch) == b[1]
cg_y_(b, batch) == b[Min(batch, Len(b))]
cg_x0_(x_init, batch) == x_init[Min(batch, Len(x_init))]

\* The operator handed to cg for batch element `batch` (line 459).
cg_A_(a, batch) == a

\* The for loop of lines 456-461 from element `batch` on: the list of results
\* and the log of cg invocations, or the error that ended the loop.
RECURSIVE cg_loop(_, _, _, _, _, _, _)
cg_loop(a, b, x_init, params, batch_size, batch, acc) ==
    IF batch > batch_size THEN acc
    ELSE LET y_ == ToFloat(cg_y_(b, batch))
             x0_ == ToFloat(cg_x0_(x_init, batch))
             got == cg(cg_A_(a, batch), y_, x0_, params.relative_tolerance,
                       params.absolute_tolerance, params.max_iterations)
             log == Append(acc.calls, [A |-> cg_A_(a, batch), b |-> y_, x0 |-> x0_])
         IN  IF got.kind = "raise"
             THEN [raised |-> got, results |-> acc.results, calls |-> log]
             ELSE cg_loop(a, b, x_init, params, batch_size, batch + 1,
                          [raised |-> None, results |-> Append(acc.results, got.value[1]),
                           calls |-> log])

\* The result record written at line 462.
cg_result(loop) == SolveResult(TRUE, -1)

conjugate_gradient ==
    /\ pc = "conjugate_gradient"
    /\ LET batch_size == cg_batch_size(A, y, x0) IN
         IF batch_size.kind = "raise"
         THEN /\ ret' = batch_size
              /\ UNCHANGED <<solve_params, cg_calls>>
         ELSE LET loop == cg_loop(A, y, x0, solve_params, batch_size.value, 1,
                                  [raised |-> None, results |-> <<>>, calls |-> <<>>])
              IN  /\ cg_calls' = loop.calls
                  /\ IF loop.raised # None
                     THEN /\ ret' = loop.raised
                          /\ UNCHANGED solve_params
                     ELSE /\ solve_params' = [solve_params EXCEPT !.result = <<cg_result(loop)>>]
                          /\ ret' = Return(loop.results)
    /\ pc' = "done"
    /\ UNCHANGED <<call, backend, local, history, A, y, x0, indices, values, shape, duplicates_handling,
                   outside_handling, gathered>>

(***************************************************************************)
(* Inputs of the solver.                                                   *)
(***************************************************************************)
\* Symmetric positive definite operators.
Matrices == {<<<<1, 0>>, <<0, 1>>>>, <<<<2, 0>>, <<0, 1>>>>}
Vectors == {<<1, 0>>, <<1, 1>>}
BatchSizes == 1..MaxBatch

BatchesOf(S) == UNION {[1..n -> S] : n \in BatchSizes}

Operators ==
    [kind : {"matrix"}, m : Matrices] \cup [kind : {"list", "tensor3"}, m : BatchesOf(Matrices)]

\* relative_tolerance of the solves.
Tolerance == <<1, 10>>

InitCG ==
    /\ pc = "conjugate_gradient"
    /\ A \in Operators
    /\ y \in BatchesOf(Vectors)
    /\ x0 \in BatchesOf(Vectors)
    /\ solve_params \in [relative_tolerance : {Tolerance}, absolute_tolerance : {Zero},
                         max_iterations : 0..MaxIter, result : {None}]
    /\ cg_calls = <<>>
    /\ indices = None /\ values = None /\ shape = None
    /\ duplicates_handling = None /\ outside_handling = None /\ gathered = None
    /\ ret = None
    /\ call = None /\ backend = None /\ local = None /\ history = None

NextCG == conjugate_gradient

SpecCG == InitCG /\ [][NextCG]_vars

(***************************************************************************)
(* Tensors handed to scatter, gather and batched_gather_nd: an engine      *)
(* ("jax") array or a host ("numpy") array, which is_tensor accepts too    *)
(* (lines 66 and 76).  Indices are the 0-based numbers of the source; the  *)
(* cell with index tuple <<i, j>> is element [i + 1][j + 1] here.          *)
(***************************************************************************)
Tensor(array, data) == [array |-> array, data |-> data]
ArrayKinds == {"jax", "numpy"}

\* t[b, ...] for the loop variable b of range(batch_size), here b >= 1: a host
\* array raises for an index past its end, an engine array clamps it.
index_batch(t, b) ==
    IF b <= Len(t.data) THEN Return(t.data[b])
    ELSE IF t.array = "jax" THEN Return(t.data[Len(t.data)])
    ELSE Raise("IndexError")

\* jnp.zeros((*shape, channels)) and jnp.ones(values.shape[1:]).
zeros(shp, channels) ==
    [i \in 1..shp[1] |-> [j \in 1..shp[2] |-> [c \in 1..channels |-> Zero]]]
ones(points, channels) == [p \in 1..points |-> [c \in 1..channels |-> 1]]

InBounds(index, operand) ==
    /\ 0 <= index[1] /\ index[1] < Len(operand)
    /\ 0 <= index[2] /\ index[2] < Len(operand[1])

\* jax.lax.scatter_add(operand, scatter_indices, updates, dnums) over the
\* first n points: the update of a point is added to the cell its index tuple
\* names, and skipped when that tuple is out of bounds.
RECURSIVE lax_scatter_add(_, _, _, _)
lax_scatter_add(operand, scatter_indices, updates, n) ==
    IF n = 0 THEN operand
    ELSE LET prev == lax_scatter_add(operand, scatter_indices, updates, n - 1)
             index == scatter_indices[n]
         IN  IF InBounds(index, operand)
             THEN [prev EXCEPT ![index[1] + 1][index[2] + 1] = VAdd(@, ToFloat(updates[n]))]
             ELSE prev

\* One pass of the loop of lines 375-377: the sums and counts of batch element b.
scatter_sums(zero, b_indices, b_values) ==
    lax_scatter_add(zero, b_indices, b_values, Len(b_indices))
scatter_counts(zero, b_indices, one) ==
    lax_scatter_add(zero, b_indices, one, Len(b_indices))

\* The loop of lines 375-377 from batch element b on.
RECURSIVE scatter_loop(_, _, _, _, _, _)
scatter_loop(ind, val, shp, batch_size, b, acc) ==
    IF b > batch_size THEN acc
    ELSE LET b_indices == index_batch(ind, b)
             b_values == index_batch(val, b)
             channels == Len(val.data[1][1])
             zero == zeros(shp, channels)
             one == ones(Len(val.data[1]), channels)
         IN  IF b_indices.kind = "raise" THEN [acc EXCEPT !.raised = b_indices]
             ELSE IF b_values.kind = "raise" THEN [acc EXCEPT !.raised = b_values]
             ELSE scatter_loop(ind, val, shp, batch_size, b + 1,
                     [raised |-> None,
                      sums |-> Append(acc.sums,
                                      scatter_sums(zero, b_indices.value, b_values.value)),
                      counts |-> Append(acc.counts,
                                        scatter_counts(zero, b_indices.value, one))])

\* counts = jnp.maximum(1, counts); return sums / counts (lines 380-381).
mean_sums_only(sums, counts) == sums
mean_divide(sums, counts) ==
    [b \in DOMAIN sums |-> [i \in DOMAIN sums[b] |-> [j \in DOMAIN sums[b][i] |->
        [c \in DOMAIN sums[b][i][j] |->
            RDiv(sums[b][i][j][c], RMax(One, counts[b][i][j][c]))]]]]

(***************************************************************************)
(* JaxBackend.scatter                                                      *)
(***************************************************************************)
DuplicatesHandling == {"undefined", "add", "mean", "any"}
OutsideHandling == {"discard", "clamp", "undefined"}

scatter(ind, val, shp, duplicates, outside) ==
    LET batch_size == combined_dim(Len(ind.data), Len(val.data)) IN
    IF duplicates \notin DuplicatesHandling \/ outside \notin OutsideHandling
    THEN Raise("AssertionError")
    ELSE IF batch_size.kind = "raise" THEN batch_size
    ELSE IF duplicates = "add" THEN Raise("NotImplementedError")
    ELSE IF duplicates = "mean"
    THEN LET loop == scatter_loop(ind, val, shp, batch_size.value, 1,
                                  [raised |-> None, sums |-> <<>>, counts |-> <<>>])
         IN  IF loop.raised # None THEN loop.raised
             ELSE Return(mean_divide(loop.sums, loop.counts))
    ELSE Raise("NotImplementedError")

scatter_call ==
    /\ pc = "scatter"
    /\ ret' = scatter(indices, values, shape, duplicates_handling, outside_handling)
    /\ pc' = "done"
    /\ UNCHANGED <<call, backend, local, history, A, y, x0, solve_params, cg_calls, indices, values, shape,
                   duplicates_handling, outside_handling, gathered>>

\* Largest batch size of the tensors of scatter and gather.
MaxTensorBatch == 2

TensorBatchesOf(S) == UNION {[1..n -> S] : n \in 1..MaxTensorBatch}

\* Dense shape of the scatter target, and rows of two points each: a
\* duplicated cell, two distinct cells, and a point outside in either axis.
GridShape == <<2, 2>>
IndexRows == {<<<<0, 0>>, <<0, 0>>>>, <<<<0, 1>>, <<1, 0>>>>,
              <<<<1, 1>>, <<2, 0>>>>, <<<<0, 2>>, <<0, 0>>>>}
ValueRows == {<<<<10>>, <<20>>>>, <<<<20>>, <<20>>>>, <<<<10>>, <<15>>>>}

InitScatter ==
    /\ pc = "scatter"
    /\ indices \in {Tensor(k, d) : k \in ArrayKinds, d \in TensorBatchesOf(IndexRows)}
    /\ values \in {Tensor(k, d) : k \in ArrayKinds, d \in TensorBatchesOf(ValueRows)}
    /\ shape = GridShape
    /\ duplicates_handling \in DuplicatesHandling
    /\ outside_handling \in OutsideHandling
    /\ A = None /\ y = None /\ x0 = None /\ solve_params = None /\ cg_calls = None
    /\ gathered = None
    /\ ret = None
    /\ call = None /\ backend = None /\ local = None /\ history = None

NextScatter == scatter_call

SpecScatter == InitScatter /\ [][NextScatter]_vars

(***************************************************************************)
(* JaxBackend.gather, and the round trip gather then scatter               *)
(***************************************************************************)
\* t[i] for one index i >= 0 along the first axis.
take(t, i) ==
    IF i < Len(t.data) THEN Return(t.data[i + 1])
    ELSE IF t.array = "jax" THEN Return(t.data[Len(t.data)])
    ELSE Raise("IndexError")

\* values[indices] for a rank-1 integer array of indices.
gather(val, ind) ==
    IF \E p \in DOMAIN ind.data : take(val, ind.data[p]).kind = "raise"
    THEN Raise("IndexError")
    ELSE Return(Tensor(val.array, [p \in DOMAIN ind.data |-> take(val, ind.data[p]).value]))

gather_call ==
    /\ pc = "gather"
    /\ gathered' = gather(values, indices)
    /\ pc' = IF gathered'.kind = "raise" THEN "done" ELSE "scatter_gathered"
    /\ ret' = IF gathered'.kind = "raise" THEN gathered' ELSE ret
    /\ UNCHANGED <<call, backend, local, history, A, y, x0, solve_params, cg_calls, indices, values, shape,
                   duplicates_handling, outside_handling>>

\* scatter(indices, gathered, shape=values.shape, duplicates_handling='any')
scatter_gathered_call ==
    /\ pc = "scatter_gathered"
    /\ shape' = <<Len(values.data)>>
    /\ duplicates_handling' = "any"
    /\ outside_handling' = "undefined"
    /\ ret' = scatter(indices, gathered.value, shape', duplicates_handling', outside_handling')
    /\ pc' = "done"
    /\ UNCHANGED <<call, backend, local, history, A, y, x0, solve_params, cg_calls, indices, values, gathered>>

\* Largest extent of the gathered axis, and largest number of indices.
MaxExtent == 3
MaxIndices == 2

Scalars == {10, 20}

InitRoundTrip ==
    /\ pc = "gather"
    /\ values \in {Tensor(k, d) : k \in ArrayKinds,
                                  d \in UNION {[1..n -> Scalars] : n \in 1..MaxExtent}}
    /\ indices \in {Tensor(k, d) : k \in ArrayKinds,
                       d \in UNION {[1..n -> 0..(Len(values.data) - 1)] : n \in 1..MaxIndices}}
    /\ shape = None /\ duplicates_handling = None /\ outside_handling = None
    /\ A = None /\ y = None /\ x0 = None /\ solve_params = None /\ cg_calls = None
    /\ gathered = None
    /\ ret = None
    /\ call = None /\ backend = None /\ local = None /\ history = None

NextRoundTrip == gather_call \/ scatter_gathered_call

SpecRoundTrip == InitRoundTrip /\ [][NextRoundTrip]_vars

(***************************************************************************)
(* JaxBackend.batched_gather_nd                                            *)
(***************************************************************************)
\* b_values of line 328 and the index rows of line 329, for loop variable b >= 1.
gather_nd_values_first(val, b) == val.data[1]
gather_nd_values(val, b) == val.data[Min(b, Len(val.data))]
gather_nd_indices(ind, b) == ind.data[Min(b, Len(ind.data))]

\* self.unstack(row, -1): one array of coordinates per indexed axis.
unstack_last(row) == [axis \in 1..Len(row[1]) |-> [p \in DOMAIN row |-> row[p][axis]]]

\* b_values[b_indices] for a tuple of two coordinate arrays.
index_nd(b_values, b_indices) ==
    [p \in DOMAIN b_indices[1] |-> b_values[b_indices[1][p] + 1][b_indices[2][p] + 1]]

\* ndims(values) - 2 for values of shape [batch, x, y, channels].
spatial_rank(val) == 2

batched_gather_nd(val, ind) ==
    LET batch_size == combined_dim(Len(val.data), Len(ind.data)) IN
    IF Len(ind.data[1][1]) # spatial_rank(val) THEN Raise("AssertionError")
    ELSE IF batch_size.kind = "raise" THEN batch_size
    ELSE Return([b \in 1..batch_size.value |->
                    index_nd(gather_nd_values(val, b), unstack_last(gather_nd_indices(ind, b)))])

batched_gather_nd_call ==
    /\ pc = "batched_gather_nd"
    /\ ret' = batched_gather_nd(values, indices)
    /\ pc' = "done"
    /\ UNCHANGED <<call, backend, local, history, A, y, x0, solve_params, cg_calls, indices, values, shape,
                   duplicates_handling, outside_handling, gathered>>

\* Grids of shape [2, 2, 1] and the index rows that stay inside them.
Grids == {<<<<<<1>>, <<2>>>>, <<<<3>>, <<4>>>>>>, <<<<<<5>>, <<6>>>>, <<<<7>>, <<8>>>>>>}
InsideRows == {row \in IndexRows : \A p \in DOMAIN row :
                   row[p][1] < GridShape[1] /\ row[p][2] < GridShape[2]}
                \cup {<<<<1, 0>>, <<1, 1>>>>}

InitGatherNd ==
    /\ pc = "batched_gather_nd"
    /\ values \in {Tensor(k, d) : k \in ArrayKinds, d \in TensorBatchesOf(Grids)}
    /\ indices \in {Tensor(k, d) : k \in ArrayKinds, d \in TensorBatchesOf(InsideRows)}
    /\ shape = None /\ duplicates_handling = None /\ outside_handling = None
    /\ A = None /\ y = None /\ x0 = None /\ solve_params = None /\ cg_calls = None
    /\ gathered = None
    /\ ret = None
    /\ call = None /\ backend = None /\ local = None /\ history = None

NextGatherNd == batched_gather_nd_call

SpecGatherNd == InitGatherNd /\ [][NextGatherNd]_vars

(***************************************************************************)
(* Claims about conjugate_gradient (checked under SpecCG).                 *)
(***************************************************************************)
Done == pc = "done"
Returned == pc = "done" /\ ret.kind = "return"
Raised == pc = "done" /\ ret.kind = "raise"

\* The batch sizes that take part in a solve: y, x0 and a batched A.
cg_sizes == {Len(y), Len(x0)} \cup (IF IsBatched(A) THEN {Len(A.m)} ELSE {})
cg_compatible == \A s \in cg_sizes, t \in cg_sizes : s = t \/ s = 1 \/ t = 1
cg_max_size == CHOOSE s \in cg_sizes : \A t \in cg_sizes : t <= s
Broadcast(t, b) == IF Len(t) = 1 THEN t[1] ELSE t[b]

\* Whether x meets the tolerance of the solve of M x = b.
MeetsTolerance(M, b, x) ==
    LET r == VSub(b, MatVec(M, x))
    IN  ~RGt(Dot(r, r), cg_atol2(b, solve_params.relative_tolerance,
                                 solve_params.absolute_tolerance))

\* C1: whenever conjugate_gradient returns, the success flag of the result
\* record is TRUE exactly when every batch element's solution meets the
\* tolerance; a batch element that has not converged makes it FALSE.
C1_SuccessIffAllConverged ==
    (Returned /\ ~IsBatched(A)) =>
        (solve_params.result[1].success
            <=> \A b \in 1..Len(ret.value) :
                    MeetsTolerance(A.m, ToFloat(Broadcast(y, b)), ret.value[b]))

\* C2: for inputs whose batch sizes are compatible the call never raises: it
\* returns one solution of length n per batch element, and the result record
\* holds a success flag and the iteration count -1.
C2_ReturnsAndFillsResult ==
    (Done /\ cg_compatible) =>
        /\ ret.kind = "return"
        /\ Len(ret.value) = cg_max_size
        /\ \A b \in 1..cg_max_size : Len(ret.value[b]) = Len(y[1])
        /\ solve_params.result # None
        /\ solve_params.result[1].success \in BOOLEAN
        /\ solve_params.result[1].iterations = -1

\* C3: the call returns as many solutions as the largest participating batch
\* size when every smaller participant has batch size 1, and raises (producing
\* no result) when two participating batch sizes differ and both exceed 1.
C3_CombinedBatchSize ==
    Done => IF cg_compatible
            THEN ret.kind = "return" /\ Len(ret.value) = cg_max_size
            ELSE ret.kind = "raise" /\ solve_params.result = None

\* C4: the b-th solve is given y[b] (y[0] when y has batch size 1) and x0[b]
\* (x0[0] when x0 has batch size 1); a call that returns has run one solve per
\* element of the combined batch, and with max_iterations = 0 every solution
\* is the initial guess it was started from.
C4_BroadcastsYAndX0 ==
    Done =>
        /\ \A b \in 1..Len(cg_calls) :
              /\ cg_calls[b].b = ToFloat(Broadcast(y, b))
              /\ cg_calls[b].x0 = ToFloat(Broadcast(x0, b))
        /\ ret.kind = "return" =>
              /\ Len(cg_calls) = Max(Len(y), Len(x0))
              /\ Len(ret.value) = Max(Len(y), Len(x0))
              /\ solve_params.max_iterations = 0 =>
                    \A b \in 1..Len(ret.value) : ret.value[b] = ToFloat(Broadcast(x0, b))

\* C4's case: y with a full batch of distinct right-hand sides, x0 of batch
\* size 1, solved with no iteration allowed.
C4_Witness ==
    /\ Returned
    /\ Len(y) = MaxBatch /\ Len(x0) = 1 /\ Len(ret.value) = MaxBatch
    /\ y[1] # y[2]
    /\ solve_params.max_iterations = 0

\* C5: with a batch of matrices, batch element b is solved with the b-th
\* matrix (the only one when A has batch size 1): the call returns, and the
\* b-th solution is the one cg finds for A[b], y[b], x0[b].
C5_PerElementOperator ==
    (Done /\ IsBatched(A) /\ cg_compatible) =>
        /\ ret.kind = "return"
        /\ \A b \in 1..Len(ret.value) :
              ret.value[b] = cg_final(Broadcast(A.m, b), ToFloat(Broadcast(y, b)),
                                      ToFloat(Broadcast(x0, b)),
                                      solve_params.relative_tolerance,
                                      solve_params.absolute_tolerance,
                                      solve_params.max_iterations).x

(***************************************************************************)
(* Claims about scatter (SpecScatter), the gather/scatter round trip       *)
(* (SpecRoundTrip) and batched_gather_nd (SpecGatherNd).                   *)
(***************************************************************************)
tensor_compatible ==
    Len(indices.data) = Len(values.data) \/ Len(indices.data) = 1 \/ Len(values.data) = 1
tensor_batch == Max(Len(indices.data), Len(values.data))

\* The cell an index tuple is written to under an outside_handling policy.
Clamped(index) ==
    <<Max(0, Min(index[1], shape[1] - 1)), Max(0, Min(index[2], shape[2] - 1))>>
Target(index, policy) == IF policy = "clamp" THEN Clamped(index) ELSE index

\* The points of batch element b scattered to cell [i][j].
PointsAt(b, i, j, policy) ==
    {p \in DOMAIN Broadcast(indices.data, b) :
        Target(Broadcast(indices.data, b)[p], policy) = <<i - 1, j - 1>>}

RECURSIVE SumOver(_, _, _)
SumOver(S, row, c) ==
    IF S = {} THEN 0
    ELSE LET p == CHOOSE q \in S : TRUE IN row[p][c] + SumOver(S \ {p}, row, c)

\* (sum of the values scattered to the cell) / max(their number, 1).
MeanAt(b, i, j, c, policy) ==
    Rat(SumOver(PointsAt(b, i, j, policy), Broadcast(values.data, b), c),
        Max(Cardinality(PointsAt(b, i, j, policy)), 1))

MeanEverywhere(policy) ==
    \A b \in DOMAIN ret.value : \A i \in 1..shape[1] : \A j \in 1..shape[2] :
        \A c \in DOMAIN ret.value[b][i][j] :
            ret.value[b][i][j][c] = MeanAt(b, i, j, c, policy)

\* C6: with duplicates_handling = 'mean', every cell of every batch element of
\* the output is the sum of the values scattered to it divided by max(their
\* number, 1): 15 for a cell hit by 10 and 20, 0 for a cell no index targets.
C6_MeanOfScatteredValues ==
    (Returned /\ duplicates_handling = "mean") => MeanEverywhere("undefined")

\* C6's case: a cell hit by 10 and 20 holds 15 and an untouched cell holds 0.
C6_Witness ==
    /\ Returned /\ duplicates_handling = "mean"
    /\ \E b \in DOMAIN ret.value : \E i, j, k, l \in 1..2 :
          /\ {Broadcast(values.data, b)[p][1] : p \in PointsAt(b, i, j, "undefined")} = {10, 20}
          /\ ret.value[b][i][j][1] = <<15, 1>>
          /\ PointsAt(b, k, l, "undefined") = {}
          /\ ret.value[b][k][l][1] = Zero

\* C7: a call without batch broadcasting that asks for outside_handling
\* 'clamp' or 'discard' either raises NotImplementedError or returns the
\* output of exactly that policy, never the output of 'undefined'.
C7_OutsidePolicyAppliedOrRefused ==
    (Done /\ Len(indices.data) = Len(values.data)
          /\ outside_handling \in {"clamp", "discard"}) =>
        \/ ret = Raise("NotImplementedError")
        \/ ret.kind = "return" /\ MeanEverywhere(outside_handling)

\* C8: gather followed by scatter(indices, gathered, shape=values.shape,
\* duplicates_handling='any') returns a tensor equal to values at every index
\* that appears exactly once in indices.
C8_RoundTrip ==
    (Done /\ gathered # None) =>
        /\ ret.kind = "return"
        /\ \A i \in 0..(Len(values.data) - 1) :
              Cardinality({p \in DOMAIN indices.data : indices.data[p] = i}) = 1
                  => ret.value[i + 1] = values.data[i + 1]

\* C9: scatter with compatible batch sizes returns max(indices batch size,
\* values batch size) batch elements, and element b is the scatter of element
\* b of each input, the single element of an input of batch size 1.
C9_ScatterBroadcastsBatch ==
    (Done /\ tensor_compatible /\ duplicates_handling = "mean") =>
        /\ ret.kind = "return"
        /\ Len(ret.value) = tensor_batch
        /\ MeanEverywhere("undefined")

PyFloat(v) == [py |-> "float", v |-> v]
PySeq(type, items) == [py |-> type, items |-> items]
PyNone == [py |-> "None"]
IsSequence(v) == v.py \in {"tuple", "list"}

NoTensorCall ==
    /\ A = None /\ y = None /\ x0 = None /\ solve_params = None /\ cg_calls = None
    /\ indices = None /\ values = None /\ shape = None
    /\ duplicates_handling = None /\ outside_handling = None /\ gathered = None

(***************************************************************************)
(* JaxBackend.functional_gradient.  The differentiated functions are       *)
(* f(args) = sum_k coef[k] * args[k]^2, returned alone or as the first    *)
(* item of a tuple/list followed by `aux` auxiliary outputs.               *)
(***************************************************************************)
RECURSIVE SumSquares(_, _, _)
SumSquares(coef, args, n) ==
    IF n = 0 THEN 0 ELSE SumSquares(coef, args, n - 1) + coef[n] * args[n] * args[n]

f_primary(fd, args) == SumSquares(fd.coef, args, Len(args))
f_aux(fd, args) == [j \in 1..fd.aux |-> PyFloat(args[1] + j)]

\* result = f(args)
f_call(fd, args) ==
    IF fd.returns = "value" THEN PyFloat(f_primary(fd, args))
    ELSE PySeq(fd.returns, <<PyFloat(f_primary(fd, args))>> \o f_aux(fd, args))

\* The engine's derivative of the float f computes first, by argument argnum.
jax_derivative(fd, args, argnum) == 2 * fd.coef[argnum + 1] * args[argnum + 1]
jax_gradients(fd, args, argnums) ==
    PySeq("tuple", [i \in DOMAIN argnums |-> PyFloat(jax_derivative(fd, args, argnums[i]))])

\* aux_f (lines 99-101): (loss, aux).
aux_f(fd, args) ==
    LET result == f_call(fd, args)
    IN  IF IsSequence(result) /\ Len(result.items) > 1
        THEN <<result.items[1], PySeq(result.py, Tail(result.items))>>
        ELSE <<result, PyNone>>

\* nonaux_f (lines 110-112).
nonaux_f(fd, args) ==
    LET result == f_call(fd, args)
    IN  IF IsSequence(result) THEN result.items[1] ELSE result

\* jax.value_and_grad(aux_f, argnums=wrt, has_aux=True)(args): gradients are
\* defined for a scalar output only.
jax_grad_f(fd, argnums, args) ==
    LET out == aux_f(fd, args)
    IN  IF out[1].py # "float" THEN Raise("TypeError")
        ELSE Return(<<out, jax_gradients(fd, args, argnums)>>)

\* unwrap_outputs (lines 104-106).
unwrap_outputs(fd, argnums, args) ==
    LET got == jax_grad_f(fd, argnums, args)
    IN  IF got.kind = "raise" THEN got
        ELSE LET loss == got.value[1][1]
                 aux == got.value[1][2]
                 grads == got.value[2]
             IN  IF aux # PyNone
                 THEN Return(PySeq("tuple", <<loss>> \o aux.items \o grads.items))
                 ELSE Return(PySeq("tuple", <<loss>> \o grads.items))

\* jax.grad(nonaux_f, argnums=wrt, has_aux=False)(args)
jax_grad_nonaux(fd, argnums, args) ==
    IF nonaux_f(fd, args).py # "float" THEN Raise("TypeError")
    ELSE Return(jax_gradients(fd, args, argnums))

\* functional_gradient(f, wrt, get_output)(args)
functional_gradient(fd, argnums, get_output, args) ==
    IF get_output THEN unwrap_outputs(fd, argnums, args)
    ELSE jax_grad_nonaux(fd, argnums, args)

functional_gradient_call ==
    /\ pc = "functional_gradient"
    /\ ret' = functional_gradient(call.f, call.wrt, call.get_output, call.args)
    /\ pc' = "done"
    /\ UNCHANGED <<call, backend, local, history>>
    /\ UNCHANGED tensor_vars

\* Largest number of positional arguments and of auxiliary outputs of f.
MaxArgs == 2
MaxAux == 2

Coefficients == {1, 3}
Arguments == {2, 3}

Functions(n) ==
    [returns : {"value"}, coef : [1..n -> Coefficients], aux : {0}]
        \cup [returns : {"tuple", "list"}, coef : [1..n -> Coefficients], aux : 0..MaxAux]

\* wrt: one or two different argument positions, in any order.
WrtOf(n) ==
    {<<k>> : k \in 0..(n - 1)}
        \cup {w \in {<<k, l>> : k \in 0..(n - 1), l \in 0..(n - 1)} : w[1] # w[2]}

InitGradient ==
    /\ pc = "functional_gradient"
    /\ \E n \in 1..MaxArgs :
          call \in [f : Functions(n), wrt : WrtOf(n), get_output : BOOLEAN,
                    args : [1..n -> Arguments]]
    /\ backend = None /\ local = None /\ history = None
    /\ NoTensorCall
    /\ ret = None

NextGradient == functional_gradient_call

SpecGradient == InitGradient /\ [][NextGradient]_vars

(***************************************************************************)
(* Claims about functional_gradient (SpecGradient).                        *)
(***************************************************************************)
\* The slope of f's primary output along argument argnum, taken as a central
\* difference (exact for a quadratic).
ArgsShifted(args, argnum, d) == [args EXCEPT ![argnum + 1] = @ + d]
Slope(fd, args, argnum) ==
    (f_primary(fd, ArgsShifted(args, argnum, 1))
        - f_primary(fd, ArgsShifted(args, argnum, -1))) \div 2
Slopes(fd, args, argnums) == [i \in DOMAIN argnums |-> PyFloat(Slope(fd, args, argnums[i]))]

\* C11: with get_output = True the callable returns the flat tuple (primary
\* output, every auxiliary output of f in order, one gradient per entry of
\* wrt in order); f(x) = x**2 at x = 2.0 gives (4.0, 4.0).
C11_OutputAuxThenGradients ==
    (Done /\ call.get_output) =>
        /\ ret.kind = "return"
        /\ ret.value = PySeq("tuple", <<PyFloat(f_primary(call.f, call.args))>>
                                        \o f_aux(call.f, call.args)
                                        \o Slopes(call.f, call.args, call.wrt))

\* C12: for either value of get_output the gradients returned are those of
\* the single value f returns, or of the first item of the sequence f returns,
\* whatever the length of that sequence (length 1 included).
C12_SameQuantityDifferentiated ==
    Done =>
        /\ ret.kind = "return"
        /\ LET n == Len(call.wrt)
               m == Len(ret.value.items)
           IN  /\ m >= n
               /\ SubSeq(ret.value.items, m - n + 1, m) = Slopes(call.f, call.args, call.wrt)

(***************************************************************************)
(* JaxBackend.custom_gradient.  f returns one array (a scalar or a vector) *)
(* or a tuple of scalar arrays; gradient is written for one argument per   *)
(* forward output and returns a list of one gradient per input of f.       *)
(***************************************************************************)
\* An engine array of rank 0 (items holds its one number) or rank 1.
PyArray(ndim, items) == [py |-> "array", ndim |-> ndim, items |-> items]

\* The arguments that the call g(*v) passes: the items of a tuple or list, the
\* rows of an array; an array of rank 0 cannot be iterated.
star_args(v) ==
    IF IsSequence(v) THEN Return(v.items)
    ELSE IF v.ndim = 0 THEN Raise("TypeError")
    ELSE Return([i \in DOMAIN v.items |-> PyArray(0, <<v.items[i]>>)])

\* f(*x): output number j is x[0] + j.
custom_f(fd, x) ==
    IF fd.returns = "tuple"
    THEN PySeq("tuple", [j \in 1..fd.outputs |-> PyArray(0, <<x[1] + j>>)])
    ELSE PyArray(fd.ndim, [j \in 1..fd.outputs |-> x[1] + j])

\* The number a cotangent argument weighs in with.
RECURSIVE Total(_, _)
Total(items, n) == IF n = 0 THEN 0 ELSE Total(items, n - 1) + items[n]

\* gradient(*args): defined for one argument per forward output; the gradient
\* of input i is i times the total of the cotangents it was given.
custom_gradient_fn(fd, x, args) ==
    IF Len(args) # (IF fd.returns = "tuple" THEN fd.outputs ELSE 1)
    THEN Raise("TypeError")
    ELSE Return(PySeq("list",
            [i \in DOMAIN x |->
                i * Total([a \in DOMAIN args |-> Total(args[a].items, Len(args[a].items))],
                          Len(args))]))

\* forward (lines 118-119): the output and the residuals.
forward(fd, x) == <<custom_f(fd, x), x>>

\* The arguments backward calls gradient with (line 122).
backward_args(dy) == star_args(dy)

\* backward (lines 121-123).
backward(fd, x, dy) ==
    LET args == backward_args(dy)
    IN  IF args.kind = "raise" THEN args
        ELSE LET dx == custom_gradient_fn(fd, x, args.value)
             IN  IF dx.kind = "raise" THEN dx
                 ELSE Return(PySeq("tuple", dx.value.items))

\* The forward pass of the function custom_gradient returns.
custom_forward_call ==
    /\ pc = "custom_gradient"
    /\ local' = [out |-> forward(call.f, call.x)[1], residuals |-> forward(call.f, call.x)[2]]
    /\ pc' = "backward"
    /\ UNCHANGED <<call, backend, history, ret>>
    /\ UNCHANGED tensor_vars

\* The backward pass: the engine hands backward the residuals and the
\* cotangent dy of the forward output.
custom_backward_call ==
    /\ pc = "backward"
    /\ history' = IF backward_args(call.dy).kind = "raise" THEN <<>>
                  ELSE <<backward_args(call.dy).value>>
    /\ ret' = backward(call.f, local.residuals, call.dy)
    /\ pc' = "done"
    /\ UNCHANGED <<call, backend, local>>
    /\ UNCHANGED tensor_vars

\* Largest number of forward outputs (items of a tuple, entries of a vector).
MaxOutputs == 2

Cotangents == {1, 2}

CustomFunctions ==
    [returns : {"tuple"}, outputs : 1..MaxOutputs, ndim : {0}]
        \cup [returns : {"array"}, outputs : {1}, ndim : {0}]
        \cup [returns : {"array"}, outputs : 1..MaxOutputs, ndim : {1}]

\* The cotangents with the structure of the output of fd.
CotangentsOf(fd) ==
    IF fd.returns = "tuple"
    THEN {PySeq("tuple", [j \in 1..fd.outputs |-> PyArray(0, <<c[j]>>)]) :
            c \in [1..fd.outputs -> Cotangents]}
    ELSE {PyArray(fd.ndim, c) : c \in [1..fd.outputs -> Cotangents]}

InitCustom ==
    /\ pc = "custom_gradient"
    /\ \E n \in 1..MaxArgs : \E fd \in CustomFunctions :
          call \in [f : {fd}, x : [1..n -> Arguments], dy : CotangentsOf(fd)]
    /\ backend = None /\ local = None /\ history = <<>>
    /\ NoTensorCall
    /\ ret = None

NextCustom == custom_forward_call \/ custom_backward_call

SpecCustom == InitCustom /\ [][NextCustom]_vars

\* C13: the forward pass returns f(*x); the backward pass calls gradient once,
\* with the cotangent of the forward output passed whole (the cotangent of a
\* single output as one argument, those of a tuple of outputs as one argument
\* each), and returns one gradient per positional input of f, in input order.
C13_ForwardAndBackward ==
    /\ pc \in {"backward", "done"} => local.out = custom_f(call.f, call.x)
    /\ Done =>
          /\ history = <<IF IsSequence(call.dy) THEN call.dy.items ELSE <<call.dy>>>>
          /\ ret.kind = "return"
          /\ ret.value.py = "tuple"
          /\ Len(ret.value.items) = Len(call.x)
          /\ \A i \in DOMAIN call.x :
                ret.value.items[i] = i * ret.value.items[1]

(***************************************************************************)
(* The backend object: its precision, the engine's jax_enable_x64 flag,    *)
(* whether the engine lets that flag be switched on, and the random key.   *)
(***************************************************************************)
\* _check_float64 with the assert compiled out.
check_float64_unasserted(bk) ==
    [backend |-> bk, ok |-> TRUE]

\* _check_float64 (lines 47-51): the backend after the call, and whether the
\* call returned (ok) or the assert failed.
check_float64(bk) ==
    IF bk.precision # 64 THEN [backend |-> bk, ok |-> TRUE]
    ELSE LET updated == IF ~bk.x64 /\ bk.x64_available
                        THEN [bk EXCEPT !.x64 = TRUE] ELSE bk
         IN  [backend |-> updated, ok |-> updated.x64]

(***************************************************************************)
(* Python values as is_tensor, as_tensor, dtype and cast see them.  An     *)
(* array holds its elements in row-major order, each an exact fraction: a *)
(* bool is 0 or 1, an int a whole number.  id tells one array object from  *)
(* another.                                                                *)
(***************************************************************************)
DType(kind, bits) == [kind |-> kind, bits |-> bits]

NativeArray(dt, data, id) == [py |-> "jnp.ndarray", dtype |-> dt, data |-> data, id |-> id]
NativeBool(v) == [py |-> "jnp.bool_", dtype |-> DType("bool", 8),
                  data |-> <<IF v THEN One ELSE Zero>>, id |-> 0]
HostArray(dt, data) == [py |-> "np.ndarray", dtype |-> dt, data |-> data]
PyInt(v) == [py |-> "int", v |-> <<v, 1>>]
PyBool(v) == [py |-> "bool", v |-> IF v THEN One ELSE Zero]
PyStr == [py |-> "str"]
PyObject == [py |-> "object"]

\* isinstance(x, numbers.Number)
IsNumber(x) == x.py \in {"int", "float", "bool"}

IsArray(x) == x.py \in {"jnp.ndarray", "jnp.bool_", "np.ndarray"}

\* is_tensor (lines 65-82).
RECURSIVE is_tensor(_, _)
is_tensor(x, only_native) ==
    IF x.py = "jnp.ndarray" THEN TRUE
    ELSE IF x.py = "jnp.bool_" THEN TRUE
    ELSE IF only_native THEN FALSE
    ELSE IF x.py = "np.ndarray" THEN TRUE
    ELSE IF IsNumber(x) \/ x.py = "str" THEN TRUE
    ELSE IF IsSequence(x) THEN \A i \in DOMAIN x.items : is_tensor(x.items[i], FALSE)
    ELSE FALSE

\* The dtype the engine stores: 64 bit types exist only in x64 mode.
Canonical(dt, x64) == IF ~x64 /\ dt.bits = 64 THEN DType(dt.kind, 32) ELSE dt

\* The fractions a float type resolves: the mantissa is scaled down to
\* quarters for 64 bits and halves for 32 bits.
Resolution(bits) == IF bits = 64 THEN 4 ELSE 2

\* n / d rounded to the nearest integer, ties to even (d > 0).
RoundHalfEven(n, d) ==
    LET fl == n \div d
        r2 == 2 * (n - fl * d)
    IN  IF r2 < d THEN fl
        ELSE IF r2 > d THEN fl + 1
        ELSE IF fl % 2 = 0 THEN fl ELSE fl + 1

Round(r, bits) ==
    LET q == Resolution(bits) IN Rat(RoundHalfEven(r[1] * q, r[2]), q)

\* A fraction cut to an integer, toward zero.
Trunc(r) == IF r[1] >= 0 THEN r[1] \div r[2] ELSE -((-r[1]) \div r[2])

\* An integer stored in a type of that many bits; the values of the model
\* are far inside the 32 bit range, so only 8 bits wrap.
Wrap(v, bits) == IF bits = 8 THEN ((v + 128) % 256) - 128 ELSE v

\* One element converted to the dtype dt.
convert_element(v, dt) ==
    IF dt.kind = "bool" THEN (IF v[1] # 0 THEN One ELSE Zero)
    ELSE IF dt.kind = "int" THEN <<Wrap(Trunc(v), dt.bits), 1>>
    ELSE Round(v, dt.bits)

\* Whether jnp.array accepts x: arrays, numbers and sequences of such.
RECURSIVE Convertible(_)
Convertible(x) ==
    IF IsArray(x) \/ IsNumber(x) THEN TRUE
    ELSE IF IsSequence(x) THEN \A i \in DOMAIN x.items : Convertible(x.items[i])
    ELSE FALSE

\* The elements of x in row-major order, each with its kind and bits; a
\* Python number counts as a 64 bit one.
RECURSIVE np_leaves(_)
RECURSIVE np_leaves_of(_, _)
np_leaves(x) ==
    IF IsArray(x)
    THEN [i \in DOMAIN x.data |-> [kind |-> x.dtype.kind, bits |-> x.dtype.bits, v |-> x.data[i]]]
    ELSE IF x.py = "bool" THEN <<[kind |-> "bool", bits |-> 8, v |-> x.v]>>
    ELSE IF IsNumber(x) THEN <<[kind |-> x.py, bits |-> 64, v |-> x.v]>>
    ELSE np_leaves_of(x.items, Len(x.items))
np_leaves_of(items, n) ==
    IF n = 0 THEN <<>> ELSE np_leaves_of(items, n - 1) \o np_leaves(items[n])

\* The dtype jnp.array picks for these elements: float over int over bool.
result_type(leaves) ==
    LET kind == IF \E i \in DOMAIN leaves : leaves[i].kind = "float" THEN "float"
                ELSE IF \E i \in DOMAIN leaves : leaves[i].kind = "int" THEN "int"
                ELSE "bool"
        bits == CHOOSE b \in {8, 32, 64} :
                    /\ \E i \in DOMAIN leaves : leaves[i].kind = kind /\ leaves[i].bits = b
                    /\ \A i \in DOMAIN leaves : leaves[i].kind = kind => leaves[i].bits <= b
    IN  DType(kind, bits)

\* jnp.array(x, dt): a new array object of the canonical dtype.
jnp_array_as(x, dt, x64, id) ==
    IF ~Convertible(x) THEN Raise("TypeError")
    ELSE LET leaves == np_leaves(x)
             stored == Canonical(dt, x64)
         IN  Return(NativeArray(stored,
                 [i \in DOMAIN leaves |-> convert_element(leaves[i].v, stored)],
                 id))

\* jnp.array(x)
jnp_array(x, x64, id) ==
    IF ~Convertible(x) THEN Raise("TypeError")
    ELSE jnp_array_as(x, result_type(np_leaves(x)), x64, id)

\* cast that never returns its argument.
cast_always_copies(x, dt, x64, id) == jnp_array_as(x, dt, x64, id)

\* cast (lines 311-315).
cast(x, dt, x64, id) ==
    IF is_tensor(x, TRUE) /\ x.dtype = dt THEN Return(x)
    ELSE jnp_array_as(x, dt, x64, id)

\* dtype (lines 418-427).
dtype(array, x64) ==
    IF array.py \in {"int", "bool"} THEN Return(DType("int", 32))
    ELSE IF array.py = "float" THEN Return(DType("float", 64))
    ELSE IF array.py # "jnp.ndarray"
    THEN LET converted == jnp_array(array, x64, 0)
         IN  IF converted.kind = "raise" THEN converted ELSE Return(converted.value.dtype)
    ELSE Return(array.dtype)

\* Backend.float_type and Backend.to_float.
float_type(bk) == DType("float", bk.precision)
to_float(x, bk, id) == cast(x, float_type(bk), bk.x64, id)

\* as_tensor (lines 53-63) once _check_float64 has returned with backend bk.
enforce_precision(x, convert_external, bk, id) ==
    LET first == IF is_tensor(x, convert_external) THEN Return(x)
                 ELSE jnp_array(x, bk.x64, id)
    IN  IF first.kind = "raise" THEN first
        ELSE IF IsNumber(first.value) THEN first
        ELSE LET dt == dtype(first.value, bk.x64)
             IN  IF dt.kind = "raise" THEN dt
                 ELSE IF dt.value.kind = "float" THEN to_float(first.value, bk, id + 1)
                 ELSE first

as_tensor(x, convert_external, bk, id) ==
    IF ~check_float64(bk).ok THEN Raise("AssertionError")
    ELSE enforce_precision(x, convert_external, check_float64(bk).backend, id)

\* A random key: the path of splits that led to it from PRNGKey(0).
Key(path) == [path |-> path]

\* is_tensor(x, True) and is_tensor(x, False).
is_tensor_call ==
    /\ pc = "is_tensor"
    /\ local' = [local EXCEPT !.native = is_tensor(call.x, TRUE),
                              !.tensor = is_tensor(call.x, FALSE)]
    /\ pc' = "as_tensor"
    /\ UNCHANGED <<call, backend, history, ret>>
    /\ UNCHANGED tensor_vars

\* as_tensor(x, convert_external)
as_tensor_call ==
    /\ pc = "as_tensor"
    /\ backend' = check_float64(backend).backend
    /\ local' = [local EXCEPT
                    !.as_tensor = as_tensor(call.x, call.convert_external, backend, local.next_id),
                    !.next_id = @ + 2]
    /\ pc' = IF local'.as_tensor.kind = "raise" THEN "done" ELSE "cast"
    /\ ret' = local'.as_tensor
    /\ UNCHANGED <<call, history>>
    /\ UNCHANGED tensor_vars

\* cast(as_tensor(x), dtype)
cast_call ==
    /\ pc = "cast"
    /\ local' = [local EXCEPT
                    !.cast = cast(local.as_tensor.value, call.dtype, backend.x64, local.next_id),
                    !.next_id = @ + 1]
    /\ pc' = IF local'.cast.kind = "raise" THEN "done" ELSE "cast_again"
    /\ ret' = local'.cast
    /\ UNCHANGED <<call, backend, history>>
    /\ UNCHANGED tensor_vars

\* cast(cast(as_tensor(x), dtype), dtype)
cast_again_call ==
    /\ pc = "cast_again"
    /\ ret' = cast(local.cast.value, call.dtype, backend.x64, local.next_id)
    /\ local' = [local EXCEPT !.next_id = @ + 1]
    /\ pc' = "done"
    /\ UNCHANGED <<call, backend, history>>
    /\ UNCHANGED tensor_vars

Precisions == {32, 64}

\* The backends whose key is `key`: x64 mode is on only where it can be.
BackendsWith(key) ==
    {bk \in [precision : Precisions, x64 : BOOLEAN, x64_available : BOOLEAN, rnd_key : {key}] :
        bk.x64 => bk.x64_available}

DTypes == {DType("bool", 8), DType("int", 8), DType("int", 32), DType("int", 64),
           DType("float", 32), DType("float", 64)}

\* The elements of arrays of each dtype; floats stay inside the range of
\* every int type.
ArrayData(dt) ==
    {[i \in DOMAIN data |-> convert_element(data[i], dt)] :
        data \in IF dt.kind = "float" THEN {<<<<5, 4>>>>, <<<<-3, 2>>, <<9, 4>>>>}
                 ELSE {<<<<3, 1>>>>, <<<<200, 1>>, <<0, 1>>>>}}

\* The dtypes of the engine's arrays in the mode x64.
NativeDTypes(x64) == {dt \in DTypes : Canonical(dt, x64) = dt}

NativeArrays(x64) ==
    UNION {{NativeArray(dt, data, 0) : data \in ArrayData(dt)} : dt \in NativeDTypes(x64)}

HostArrays ==
    UNION {{HostArray(dt, data) : data \in ArrayData(dt)} : dt \in DTypes}

PyScalars == {PyInt(3), PyFloat(<<5, 4>>), PyBool(TRUE), PyStr, PyObject}

SequenceTypes == {"tuple", "list"}

\* Tuples and lists of one or two items.
SequencesOf(items) ==
    {PySeq(type, <<a>>) : type \in SequenceTypes, a \in items}
        \cup {PySeq(type, <<a, b>>) : type \in SequenceTypes, a \in items, b \in items}

\* Rows of a nested sequence: lists of one item.
PyRows == {PySeq("list", <<a>>) : a \in PyScalars}

PyValues(x64) ==
    NativeArrays(x64) \cup {NativeBool(TRUE)} \cup HostArrays \cup PyScalars
        \cup SequencesOf(PyScalars) \cup SequencesOf(PyRows)

InitConvert ==
    /\ pc = "is_tensor"
    /\ backend \in BackendsWith(Key(<<>>))
    /\ call \in [x : PyValues(backend.x64), convert_external : BOOLEAN, dtype : DTypes]
    /\ local = [native |-> PyNone, tensor |-> PyNone, as_tensor |-> PyNone, cast |-> PyNone,
                next_id |-> 1]
    /\ history = None
    /\ NoTensorCall
    /\ ret = None

NextConvert == is_tensor_call \/ as_tensor_call \/ cast_call \/ cast_again_call

SpecConvert == InitConvert /\ [][NextConvert]_vars

\* as_tensor returned a value.
Converted == pc \in {"cast", "cast_again", "done"} /\ local.as_tensor.kind = "return"

\* C14: for every supported dtype d and every x that as_tensor converts,
\* cast(cast(as_tensor(x), d), d) has the dtype and the elements of
\* cast(as_tensor(x), d); and a cast whose argument is a native tensor of
\* dtype d returns that very tensor, creating no new one.
C14_CastIdempotent ==
    /\ (pc \in {"cast_again", "done"} /\ Converted) =>
          /\ local.cast.kind = "return"
          /\ (is_tensor(local.as_tensor.value, TRUE) /\ local.as_tensor.value.dtype = call.dtype)
                => local.cast.value = local.as_tensor.value
    /\ (Done /\ Converted) =>
          /\ ret.kind = "return"
          /\ ret.value.dtype = local.cast.value.dtype
          /\ ret.value.data = local.cast.value.data
          /\ local.cast.value.dtype = call.dtype => ret.value = local.cast.value

\* The first cast changed elements and made a new array of dtype d, which the
\* second cast returned.
C14_Witness ==
    /\ Done /\ Converted
    /\ IsArray(local.as_tensor.value)
    /\ local.cast.value.data # local.as_tensor.value.data
    /\ local.cast.value.dtype = call.dtype
    /\ local.cast.value.id # local.as_tensor.value.id
    /\ ret.value.id = local.cast.value.id

\* The engine-native values, and the values made of native tensors, host
\* arrays, numbers and tuples or lists of such.
IsNative(x) == x.py \in {"jnp.ndarray", "jnp.bool_"}

RECURSIVE TensorLike(_)
TensorLike(x) ==
    \/ IsNative(x)
    \/ x.py = "np.ndarray"
    \/ IsNumber(x)
    \/ IsSequence(x) /\ \A i \in DOMAIN x.items : TensorLike(x.items[i])

\* as_tensor ran and _check_float64 let it pass.
AsTensorRan ==
    /\ pc \in {"cast", "cast_again", "done"}
    /\ local.as_tensor # Raise("AssertionError")

C15_NativeExactly ==
    pc # "is_tensor" => (local.native <=> IsNative(call.x))

C15_HostDataAccepted ==
    (pc # "is_tensor" /\ TensorLike(call.x)) => local.tensor

C15_ConvertsToNative ==
    (AsTensorRan /\ TensorLike(call.x) /\ call.convert_external) =>
        local.as_tensor.kind = "return" /\ IsNative(local.as_tensor.value)

C15_KeepsHostData ==
    (AsTensorRan /\ TensorLike(call.x) /\ ~call.convert_external) =>
        local.as_tensor = Return(call.x)

\* C15: is_tensor(x, only_native=True) is true exactly for engine-native
\* arrays and native booleans; is_tensor(x, only_native=False) is also true
\* for host arrays, numbers and tuples or lists whose items are recursively
\* tensors; as_tensor(x, convert_external=True) returns a native tensor for
\* every such x; as_tensor(x, convert_external=False) returns accepted host
\* data as it is, not converted to a native array.
C15_IsTensorAndAsTensor ==
    /\ C15_NativeExactly
    /\ C15_HostDataAccepted
    /\ C15_ConvertsToNative
    /\ C15_KeepsHostData

(***************************************************************************)
(* The operations that call _check_float64, on one backend object.  Each   *)
(* yields its result, the engine calls that made tensors or drew samples   *)
(* (fn, the x64 mode they ran in, the key they sampled from), and the      *)
(* backend it leaves behind.                                               *)
(***************************************************************************)
Outcome(result, events, bk) == [result |-> result, events |-> events, backend |-> bk]

Event(fn, bk, key) == [fn |-> fn, x64 |-> bk.x64, key |-> key]

\* jax.random.split(key): two new keys.
jax_random_split(key) == <<Key(key.path \o <<0>>), Key(key.path \o <<1>>)>>

\* Sampling from the key that is also stored.
sample_stored_key(keys) == keys[1]

\* The subkey of `self.rnd_key, subkey = jax.random.split(self.rnd_key)`.
sample_key(keys) == keys[2]

\* The number of elements of an array of that shape.
RECURSIVE Size(_, _)
Size(shp, n) == IF n = 0 THEN 1 ELSE Size(shp, n - 1) * shp[n]

\* dtype or self.float_type, as the engine stores it.
creation_dtype(dt, bk) == Canonical(IF dt = PyNone THEN float_type(bk) ELSE dt, bk.x64)

\* jnp.zeros / jnp.ones
jnp_full(v, shp, dt, id) ==
    NativeArray(dt, [i \in 1..Size(shp, Len(shp)) |-> convert_element(v, dt)], id)

\* zeros (lines 195-197) and ones (lines 202-204).
backend_full(fn, v, shp, dt, bk, id) ==
    LET chk == check_float64(bk) IN
    IF ~chk.ok THEN Outcome(Raise("AssertionError"), <<>>, chk.backend)
    ELSE Outcome(Return(jnp_full(v, shp, creation_dtype(dt, chk.backend), id)),
                 <<Event(fn, chk.backend, PyNone)>>, chk.backend)

\* jnp.linspace(start, stop, number), number >= 2.
jnp_linspace(start, stop, number, dt, id) ==
    NativeArray(dt,
        [i \in 1..number |->
            convert_element(RAdd(start, RMul(<<i - 1, number - 1>>, RSub(stop, start))), dt)],
        id)

\* linspace (lines 213-215).
linspace(start, stop, number, bk, id) ==
    LET chk == check_float64(bk) IN
    IF ~chk.ok THEN Outcome(Raise("AssertionError"), <<>>, chk.backend)
    ELSE Outcome(Return(jnp_linspace(start, stop, number, creation_dtype(PyNone, chk.backend), id)),
                 <<Event("jnp.linspace", chk.backend, PyNone)>>, chk.backend)

\* jnp.meshgrid(*coordinates, indexing='ij') of one or two coordinate arrays:
\* grid k holds coordinate k along axis k, in row-major order.
jnp_meshgrid(coordinates, id) ==
    IF Len(coordinates) = 1
    THEN <<NativeArray(coordinates[1].dtype, coordinates[1].data, id)>>
    ELSE LET rows == Len(coordinates[1].data)
             cols == Len(coordinates[2].data)
         IN  <<NativeArray(coordinates[1].dtype,
                   [p \in 1..(rows * cols) |-> coordinates[1].data[((p - 1) \div cols) + 1]], id),
               NativeArray(coordinates[2].dtype,
                   [p \in 1..(rows * cols) |-> coordinates[2].data[((p - 1) % cols) + 1]], id + 1)>>

\* meshgrid (lines 209-211).
meshgrid(coordinates, bk, id) ==
    LET chk == check_float64(bk) IN
    IF ~chk.ok THEN Outcome(Raise("AssertionError"), <<>>, chk.backend)
    ELSE Outcome(Return(PySeq("list", jnp_meshgrid(coordinates, id))),
                 <<Event("jnp.meshgrid", chk.backend, PyNone)>>, chk.backend)

\* random.uniform / random.normal: a tensor drawn from the key.
jax_random(fn, key, shp, dt, id) ==
    [py |-> "jnp.ndarray", dtype |-> dt, drawn |-> fn, key |-> key, shape |-> shp, id |-> id]

\* random_uniform (lines 137-140) and random_normal (lines 142-145);
\* jax.random.split raises for the key None of a failed PRNGKey (line 28).
backend_random(fn, shp, bk, id) ==
    LET chk == check_float64(bk) IN
    IF ~chk.ok THEN Outcome(Raise("AssertionError"), <<>>, chk.backend)
    ELSE IF chk.backend.rnd_key = PyNone THEN Outcome(Raise("TypeError"), <<>>, chk.backend)
    ELSE LET keys == jax_random_split(chk.backend.rnd_key)
             after == [chk.backend EXCEPT !.rnd_key = keys[1]]
         IN  Outcome(Return(jax_random(fn, sample_key(keys), shp, creation_dtype(PyNone, after), id)),
                     <<Event(fn, after, sample_key(keys))>>, after)

\* as_tensor (lines 53-63): the event of the arrays jnp.array made, if any.
backend_as_tensor(x, convert_external, bk, id) ==
    LET chk == check_float64(bk)
        result == as_tensor(x, convert_external, bk, id)
    IN  Outcome(result,
                IF result.kind = "return" /\ result.value.py = "jnp.ndarray" /\ result.value.id # 0
                THEN <<Event("jnp.array", chk.backend, PyNone)>> ELSE <<>>,
                chk.backend)

\* Most operations called on one backend.
MaxCalls == 3

\* One call of operation op with that outcome; local remembers what the
\* engine had made and the stored key when the call began.
Call(op, outcome) ==
    /\ pc = "backend"
    /\ local.calls < MaxCalls
    /\ ret' = outcome.result
    /\ history' = history \o outcome.events
    /\ backend' = outcome.backend
    /\ local' = [calls |-> local.calls + 1, op |-> op, next_id |-> local.next_id + 2,
                 events |-> Len(history), rnd_key |-> backend.rnd_key]
    /\ UNCHANGED <<pc, call>>
    /\ UNCHANGED tensor_vars

Shapes == {<<2>>, <<1, 2>>}

as_tensor_op ==
    \E x \in {PyFloat(<<5, 4>>), HostArray(DType("int", 64), <<<<3, 1>>>>)} :
        Call("as_tensor", backend_as_tensor(x, TRUE, backend, local.next_id))

zeros_op ==
    \E dt \in {PyNone, DType("int", 32)} :
        Call("zeros", backend_full("jnp.zeros", Zero, <<2>>, dt, backend, local.next_id))

ones_op ==
    \E dt \in {PyNone, DType("int", 32)} :
        Call("ones", backend_full("jnp.ones", One, <<2>>, dt, backend, local.next_id))

linspace_op ==
    \E number \in {2, 3} :
        Call("linspace", linspace(Zero, One, number, backend, local.next_id))

meshgrid_op ==
    \E coordinates \in {<<NativeArray(DType("int", 32), <<Zero, One>>, 0)>>,
                        <<NativeArray(DType("int", 32), <<Zero, One>>, 0),
                          NativeArray(DType("float", 32), <<<<1, 2>>>>, 0)>>} :
        Call("meshgrid", meshgrid(coordinates, backend, local.next_id))

random_uniform ==
    \E shp \in Shapes :
        Call("random_uniform", backend_random("random.uniform", shp, backend, local.next_id))

random_normal ==
    \E shp \in Shapes :
        Call("random_normal", backend_random("random.normal", shp, backend, local.next_id))

\* __init__ (lines 22-28): the key of PRNGKey(seed=0), or None when the
\* engine cannot make one.
InitBackend ==
    /\ pc = "backend"
    /\ backend \in BackendsWith(Key(<<>>)) \cup BackendsWith(PyNone)
    /\ local = [calls |-> 0, op |-> "__init__", next_id |-> 1, events |-> 0,
                rnd_key |-> backend.rnd_key]
    /\ history = <<>>
    /\ call = None
    /\ NoTensorCall
    /\ ret = None

NextBackend ==
    \/ as_tensor_op \/ zeros_op \/ ones_op \/ linspace_op \/ meshgrid_op
    \/ random_uniform \/ random_normal

SpecBackend == InitBackend /\ [][NextBackend]_vars

\* The operations of the backend that check the precision first.
CheckedOperations ==
    {"as_tensor", "zeros", "ones", "linspace", "meshgrid", "random_uniform", "random_normal"}

\* C16: while the precision is 64 and x64 mode cannot be switched on, each of
\* as_tensor, zeros, ones, linspace, meshgrid, random_uniform and
\* random_normal fails before the engine makes any tensor and before the
\* random key advances; and whenever one of them returns under precision 64,
\* x64 mode is on and was on for every tensor the call made.
C16_FailsBeforeCreating ==
    (pc = "backend" /\ local.op \in CheckedOperations) =>
        /\ (backend.precision = 64 /\ ~backend.x64_available) =>
              /\ ret = Raise("AssertionError")
              /\ Len(history) = local.events
              /\ backend.rnd_key = local.rnd_key
        /\ (backend.precision = 64 /\ ret.kind = "return") =>
              /\ backend.x64
              /\ \A i \in DOMAIN history : i > local.events => history[i].x64

\* A random operation failed on the precision check after earlier calls.
C16_Witness ==
    /\ pc = "backend"
    /\ local.calls > 1
    /\ local.op = "random_uniform"
    /\ backend.precision = 64 /\ ~backend.x64_available
    /\ backend.rnd_key = Key(<<>>)
    /\ ret = Raise("AssertionError")

\* The events of the random operations, in order.
RandomEvents == SelectSeq(history, LAMBDA e : e.fn \in {"random.uniform", "random.normal"})

\* The stored key after n successful random calls on a backend that started
\* with PRNGKey(0).
RECURSIVE StoredAfter(_)
StoredAfter(n) == IF n = 0 THEN Key(<<>>) ELSE jax_random_split(StoredAfter(n - 1))[1]

\* C18: every successful random_uniform or random_normal splits the stored
\* key into a new stored key and a subkey, samples from the subkey only and
\* stores the new key: no two calls sample from the same key, no key that is
\* or was stored is sampled from, and no other operation changes the stored
\* key.
C18_KeyDiscipline ==
    pc = "backend" =>
        LET samples == RandomEvents
            n == Len(samples)
        IN  /\ backend.rnd_key = PyNone => n = 0
            /\ backend.rnd_key # PyNone =>
                  /\ backend.rnd_key = StoredAfter(n)
                  /\ \A i \in 1..n : samples[i].key = jax_random_split(StoredAfter(i - 1))[2]
            /\ \A i \in 1..n : \A j \in 1..n : i # j => samples[i].key # samples[j].key
            /\ \A i \in 1..n : \A k \in 0..n : samples[i].key # StoredAfter(k)
            /\ (local.op \in {"random_uniform", "random_normal"} /\ ret.kind = "return") =>
                  /\ n > 0
                  /\ ret.value.key = samples[n].key
                  /\ Len(history) = local.events + 1
                  /\ backend.rnd_key # local.rnd_key
            /\ local.op \notin {"random_uniform", "random_normal"} =>
                  backend.rnd_key = local.rnd_key

\* Two samples were drawn with another operation between them.
C18_Witness ==
    /\ pc = "backend"
    /\ Len(history) = 3
    /\ history[1].fn = "random.uniform"
    /\ history[2].fn = "jnp.zeros"
    /\ history[3].fn = "random.normal"
    /\ backend.rnd_key = Key(<<0, 0>>)

(***************************************************************************)
(* JaxBackend.while_loop.  The loop variables are (x, total); cond is      *)
(* x < limit and body adds step to x and x to total.  local holds the      *)
(* Python locals loop_vars and i; history lists the applications of body.  *)
(***************************************************************************)
while_cond(c, loop_vars) == loop_vars[1] < c.limit
while_body(c, loop_vars) == <<loop_vars[1] + c.step, loop_vars[2] + loop_vars[1]>>

\* The break test with the counter compared one too far.
cap_reached_late(i, maximum_iterations) ==
    maximum_iterations # PyNone /\ i = maximum_iterations.v[1] + 1

\* maximum_iterations is not None and i == maximum_iterations (line 241)
cap_reached(i, maximum_iterations) ==
    maximum_iterations # PyNone /\ i = maximum_iterations.v[1]

\* Most passes of a loop that nothing else stops.
MaxLoop == 4
\* Largest maximum_iterations.
MaxCap == 2

\* One pass of the loop (lines 240-244): cond holds, the cap is not reached,
\* body is applied.
while_loop_pass ==
    /\ pc = "while_loop"
    /\ local.i < MaxLoop
    /\ while_cond(call, local.loop_vars)
    /\ ~cap_reached(local.i, call.maximum_iterations)
    /\ local' = [loop_vars |-> while_body(call, local.loop_vars), i |-> local.i + 1]
    /\ history' = Append(history, [args |-> local.loop_vars,
                                   result |-> while_body(call, local.loop_vars)])
    /\ UNCHANGED <<pc, call, backend, ret>>
    /\ UNCHANGED tensor_vars

\* The loop ends (cond fails, or break at the cap) and loop_vars is returned
\* (line 245).
while_loop_return ==
    /\ pc = "while_loop"
    /\ \/ ~while_cond(call, local.loop_vars)
       \/ cap_reached(local.i, call.maximum_iterations)
    /\ ret' = Return(local.loop_vars)
    /\ pc' = "done"
    /\ UNCHANGED <<call, backend, local, history>>
    /\ UNCHANGED tensor_vars

Limits == {0, 1, 3}
Steps == {0, 1, 2}

InitWhile ==
    /\ pc = "while_loop"
    /\ call \in [limit : Limits, step : Steps, loop_vars : {<<0, 0>>, <<1, 0>>},
                 maximum_iterations : {PyNone} \cup {PyInt(m) : m \in 0..MaxCap}]
    /\ local = [loop_vars |-> call.loop_vars, i |-> 0]
    /\ history = <<>>
    /\ backend = None
    /\ NoTensorCall
    /\ ret = None

NextWhile == while_loop_pass \/ while_loop_return

SpecWhile == InitWhile /\ [][NextWhile]_vars

\* The interpreter keeps running the loop while it can take a step.
SpecWhileFair == SpecWhile /\ WF_vars(NextWhile)

\* The number of iterations, at most `most`, for which cond holds on the
\* loop variables that body produces from loop_vars on.
RECURSIVE Holds(_, _, _)
Holds(c, loop_vars, most) ==
    IF most = 0 \/ ~while_cond(c, loop_vars) THEN 0
    ELSE 1 + Holds(c, while_body(c, loop_vars), most - 1)

\* min(k, maximum_iterations) for a loop that came to its end.
Applications ==
    IF call.maximum_iterations = PyNone THEN Holds(call, call.loop_vars, MaxLoop)
    ELSE Holds(call, call.loop_vars, call.maximum_iterations.v[1])

WhileLoopResult ==
    /\ \A n \in DOMAIN history :
          history[n].args = IF n = 1 THEN call.loop_vars ELSE history[n - 1].result
    /\ Done =>
          /\ Len(history) = Applications
          /\ ret = Return(IF history = <<>> THEN call.loop_vars
                          ELSE history[Len(history)].result)

\* C17: body is applied exactly min(k, maximum_iterations) times, k being the
\* number of iterations for which cond holds (None: no cap); each application
\* receives the result of the one before, the first the initial loop_vars;
\* the loop variables returned are those of the last application, or the
\* initial ones when body never ran; and with a maximum_iterations that is
\* not None the call terminates.
C17_WhileLoop ==
    /\ []WhileLoopResult
    /\ [](call.maximum_iterations # PyNone => <>Done)

\* The cap cut a loop short whose condition still held, after two passes.
C17_Witness ==
    /\ Done
    /\ call.maximum_iterations = PyInt(2)
    /\ Len(history) = 2
    /\ while_cond(call, ret.value)

====
